---- MODULE Spec2Model ----
(***************************************************************************)
(* Model of the transaction replay of rust-transactions-cli:               *)
(*   main.rs                 get_transactions -> process_transactions      *)
(*   transactions/models.rs  Transaction, new_from_csv, sort_by_key,       *)
(*                           is_dispute, get_prev_trans                    *)
(*   clients/models.rs       Client, Client::new, new_transaction,         *)
(*                           process_transactions                          *)
(*                                                                         *)
(* Amounts are f32 in the source.  The model uses integers: one unit is a  *)
(* small dyadic amount (such as 0.5), for which f32 addition, subtraction  *)
(* and comparison are exact within the bounds explored here.              *)
(***************************************************************************)
EXTENDS Integers, Sequences, FiniteSets

VARIABLES
    pc,        \* "read" (get_transactions loop), "replay" (process loop), "done"
    input,     \* transactions pushed so far by get_transactions, in file order
    txs,       \* the vector handed to process_transactions (sorted by tx)
    i,         \* 1-based position of the for loop of process_transactions
    clients,   \* the Vec<Client> built by process_transactions
    history    \* history[j] = clients before the j-th iteration (ghost)

vars == <<pc, input, txs, i, clients, history>>

-----------------------------------------------------------------------------
(* Bounds of the explored inputs *)

\* records per input file, over all clients and transaction ids
MaxLen == 3
\* records per input file when every record has client 1 and tx 1
MaxLenOne == 4
NumClients == 2
MaxTx == 2
MaxAmount == 1

ClientIds == 1..NumClients
TxIds == 1..MaxTx
Amounts == 0..MaxAmount

\* the five kinds new_transaction matches, and one it does not
TxTypes == {"deposit", "withdrawal", "dispute", "resolve", "chargeback", "transfer"}

\* a CSV row: type, client, tx and an optional fourth field (flexible reader)
CsvRows ==
    { <<t, c, x>> : t \in TxTypes, c \in ClientIds, x \in TxIds }
    \cup { <<t, c, x, a>> : t \in TxTypes, c \in ClientIds, x \in TxIds, a \in Amounts }

InBounds(s) ==
    \/ Len(s) <= MaxLen
    \/ /\ Len(s) <= MaxLenOne
       /\ \A k \in 1..Len(s) : s[k].client = 1 /\ s[k].tx = 1

-----------------------------------------------------------------------------
(* transactions/models.rs *)

\* Transaction::new_from_csv: a missing amount field is 0.0
new_from_csv(sr) ==
    [ tx_type |-> sr[1],
      client  |-> sr[2],
      tx      |-> sr[3],
      amount  |-> IF Len(sr) >= 4 THEN sr[4] ELSE 0 ]

\* Transaction::is_dispute
is_dispute(transaction) ==
    transaction.tx_type \in {"dispute", "resolve", "chargeback"}

\* Option<usize>::None of get_prev_trans and of Iterator::position
None == 0

\* Transaction::get_prev_trans: the first index (1-based) of a deposit with
\* this tx id in the whole vector, or None
get_prev_trans(transactions, tx_id) ==
    LET hits == { k \in 1..Len(transactions) :
                    /\ transactions[k].tx = tx_id
                    /\ transactions[k].tx_type = "deposit" }
    IN  IF hits = {} THEN None
        ELSE CHOOSE k \in hits : \A m \in hits : k <= m

\* a sort that leaves the vector as the file had it
sort_by_key_not_sorting(transactions) == transactions

\* one insertion of a sort that puts r before the elements with its own key
InsertByKey_before_equal(sorted, r) ==
    LET n == Cardinality({ k \in 1..Len(sorted) : sorted[k].tx < r.tx })
    IN  SubSeq(sorted, 1, n) \o <<r>> \o SubSeq(sorted, n + 1, Len(sorted))

\* one insertion of a stable sort: r goes after every element whose key is
\* not greater than its own
InsertByKey(sorted, r) ==
    LET n == Cardinality({ k \in 1..Len(sorted) : sorted[k].tx <= r.tx })
    IN  SubSeq(sorted, 1, n) \o <<r>> \o SubSeq(sorted, n + 1, Len(sorted))

RECURSIVE SortPrefix(_, _)
SortPrefix(transactions, n) ==
    IF n = 0 THEN <<>>
    ELSE InsertByKey(SortPrefix(transactions, n - 1), transactions[n])

\* transactions.sort_by_key(|a| a.tx): the stable sort of the standard library
sort_by_key(transactions) == SortPrefix(transactions, Len(transactions))

-----------------------------------------------------------------------------
(* clients/models.rs *)

\* Client::new
Client_new(client) ==
    [ client |-> client, available |-> 0, held |-> 0, total |-> 0, locked |-> FALSE ]

\* new_transaction without the final recomputation of total
new_transaction_stale_total(self, tx_type, amount) ==
    CASE tx_type = "deposit" ->
           [self EXCEPT !.available = self.available + amount]
      [] tx_type = "withdrawal" ->
           IF self.available - amount > 0
           THEN [self EXCEPT !.available = self.available - amount]
           ELSE self
      [] tx_type = "dispute" ->
           [self EXCEPT !.available = self.available - amount,
                        !.held = self.held + amount]
      [] tx_type = "resolve" ->
           [self EXCEPT !.available = self.available + self.held,
                        !.held = self.held - amount]
      [] tx_type = "chargeback" ->
           [self EXCEPT !.held = self.held - amount,
                        !.locked = TRUE]
      [] OTHER -> self

\* new_transaction whose withdrawal check is >= 0.0 instead of > 0.0
new_transaction_ge(self, tx_type, amount) ==
    LET after ==
          CASE tx_type = "deposit" ->
                 [self EXCEPT !.available = self.available + amount]
            [] tx_type = "withdrawal" ->
                 IF self.available - amount >= 0
                 THEN [self EXCEPT !.available = self.available - amount]
                 ELSE self
            [] tx_type = "dispute" ->
                 [self EXCEPT !.available = self.available - amount,
                              !.held = self.held + amount]
            [] tx_type = "resolve" ->
                 [self EXCEPT !.available = self.available + self.held,
                              !.held = self.held - amount]
            [] tx_type = "chargeback" ->
                 [self EXCEPT !.held = self.held - amount,
                              !.locked = TRUE]
            [] OTHER -> self
    IN  [after EXCEPT !.total = after.available + after.held]

\* new_transaction whose resolve leaves held as it was
new_transaction_resolve_keeps_held(self, tx_type, amount) ==
    LET after ==
          CASE tx_type = "deposit" ->
                 [self EXCEPT !.available = self.available + amount]
            [] tx_type = "withdrawal" ->
                 IF self.available - amount > 0
                 THEN [self EXCEPT !.available = self.available - amount]
                 ELSE self
            [] tx_type = "dispute" ->
                 [self EXCEPT !.available = self.available - amount,
                              !.held = self.held + amount]
            [] tx_type = "resolve" ->
                 [self EXCEPT !.available = self.available + self.held]
            [] tx_type = "chargeback" ->
                 [self EXCEPT !.held = self.held - amount,
                              !.locked = TRUE]
            [] OTHER -> self
    IN  [after EXCEPT !.total = after.available + after.held]

\* new_transaction whose chargeback does not set locked
new_transaction_chargeback_no_lock(self, tx_type, amount) ==
    LET after ==
          CASE tx_type = "deposit" ->
                 [self EXCEPT !.available = self.available + amount]
            [] tx_type = "withdrawal" ->
                 IF self.available - amount > 0
                 THEN [self EXCEPT !.available = self.available - amount]
                 ELSE self
            [] tx_type = "dispute" ->
                 [self EXCEPT !.available = self.available - amount,
                              !.held = self.held + amount]
            [] tx_type = "resolve" ->
                 [self EXCEPT !.available = self.available + self.held,
                              !.held = self.held - amount]
            [] tx_type = "chargeback" ->
                 [self EXCEPT !.held = self.held - amount]
            [] OTHER -> self
    IN  [after EXCEPT !.total = after.available + after.held]

\* new_transaction whose resolve gives back the amount, not the held balance
new_transaction_resolve_amount(self, tx_type, amount) ==
    LET after ==
          CASE tx_type = "deposit" ->
                 [self EXCEPT !.available = self.available + amount]
            [] tx_type = "withdrawal" ->
                 IF self.available - amount > 0
                 THEN [self EXCEPT !.available = self.available - amount]
                 ELSE self
            [] tx_type = "dispute" ->
                 [self EXCEPT !.available = self.available - amount,
                              !.held = self.held + amount]
            [] tx_type = "resolve" ->
                 [self EXCEPT !.available = self.available + amount,
                              !.held = self.held - amount]
            [] tx_type = "chargeback" ->
                 [self EXCEPT !.held = self.held - amount,
                              !.locked = TRUE]
            [] OTHER -> self
    IN  [after EXCEPT !.total = after.available + after.held]

\* new_transaction whose dispute is made only when available covers the amount
new_transaction_dispute_checked(self, tx_type, amount) ==
    LET after ==
          CASE tx_type = "deposit" ->
                 [self EXCEPT !.available = self.available + amount]
            [] tx_type = "withdrawal" ->
                 IF self.available - amount > 0
                 THEN [self EXCEPT !.available = self.available - amount]
                 ELSE self
            [] tx_type = "dispute" ->
                 IF self.available >= amount
                 THEN [self EXCEPT !.available = self.available - amount,
                                   !.held = self.held + amount]
                 ELSE self
            [] tx_type = "resolve" ->
                 [self EXCEPT !.available = self.available + self.held,
                              !.held = self.held - amount]
            [] tx_type = "chargeback" ->
                 [self EXCEPT !.held = self.held - amount,
                              !.locked = TRUE]
            [] OTHER -> self
    IN  [after EXCEPT !.total = after.available + after.held]

\* new_transaction whose dispute also sets locked
new_transaction_dispute_locks(self, tx_type, amount) ==
    LET after ==
          CASE tx_type = "deposit" ->
                 [self EXCEPT !.available = self.available + amount]
            [] tx_type = "withdrawal" ->
                 IF self.available - amount > 0
                 THEN [self EXCEPT !.available = self.available - amount]
                 ELSE self
            [] tx_type = "dispute" ->
                 [self EXCEPT !.available = self.available - amount,
                              !.held = self.held + amount,
                              !.locked = TRUE]
            [] tx_type = "resolve" ->
                 [self EXCEPT !.available = self.available + self.held,
                              !.held = self.held - amount]
            [] tx_type = "chargeback" ->
                 [self EXCEPT !.held = self.held - amount,
                              !.locked = TRUE]
            [] OTHER -> self
    IN  [after EXCEPT !.total = after.available + after.held]

\* Client::new_transaction
new_transaction(self, tx_type, amount) ==
    LET after ==
          CASE tx_type = "deposit" ->
                 [self EXCEPT !.available = self.available + amount]
            [] tx_type = "withdrawal" ->
                 IF self.available - amount > 0
                 THEN [self EXCEPT !.available = self.available - amount]
                 ELSE self
            [] tx_type = "dispute" ->
                 [self EXCEPT !.available = self.available - amount,
                              !.held = self.held + amount]
            [] tx_type = "resolve" ->
                 [self EXCEPT !.available = self.available + self.held,
                              !.held = self.held - amount]
            [] tx_type = "chargeback" ->
                 [self EXCEPT !.held = self.held - amount,
                              !.locked = TRUE]
            [] OTHER -> self
    IN  [after EXCEPT !.total = after.available + after.held]

\* clients.iter().position(|c| c.client == client_id)
position(cls, client_id) ==
    LET hits == { k \in 1..Len(cls) : cls[k].client = client_id }
    IN  IF hits = {} THEN None
        ELSE CHOOSE k \in hits : \A m \in hits : k <= m

\* the Some(cl_index) arm without its check of the locked flag
process_existing_no_lock_check(account, transactions, n) ==
    LET transaction == transactions[n]
        ori_tx_id == get_prev_trans(transactions, transaction.tx)
    IN  IF is_dispute(transaction) /\ ori_tx_id # None
        THEN new_transaction(account, transaction.tx_type,
                             transactions[ori_tx_id].amount)
        ELSE new_transaction(account, transaction.tx_type, transaction.amount)

\* the Some(cl_index) arm that never looks the deposit up
process_existing_own_amount(account, transactions, n) ==
    IF account.locked THEN account
    ELSE new_transaction(account, transactions[n].tx_type, transactions[n].amount)

\* the Some(cl_index) arm of process_transactions, for the account it indexes
process_existing(account, transactions, n) ==
    LET transaction == transactions[n]
        ori_tx_id == get_prev_trans(transactions, transaction.tx)
    IN  IF account.locked THEN account
        ELSE IF is_dispute(transaction) /\ ori_tx_id # None
        THEN new_transaction(account, transaction.tx_type,
                             transactions[ori_tx_id].amount)
        ELSE new_transaction(account, transaction.tx_type, transaction.amount)

\* the None arm that pushes the new client without making the transaction
process_new_without_transaction(transactions, n) ==
    Client_new(transactions[n].client)

\* the None arm of process_transactions: the account it pushes
process_new(transactions, n) ==
    new_transaction(Client_new(transactions[n].client),
                    transactions[n].tx_type, transactions[n].amount)

\* the loop body that inserts a new client at the front of the vector
process_one_insert_front(cls, transactions, n) ==
    LET cl_index == position(cls, transactions[n].client)
    IN  IF cl_index # None
        THEN [cls EXCEPT ![cl_index] = process_existing(cls[cl_index], transactions, n)]
        ELSE <<process_new(transactions, n)>> \o cls

\* the loop body that applies a dispute-family transaction to the account of
\* the client that made the deposit
process_one_deposit_owner(cls, transactions, n) ==
    LET ori_tx_id == get_prev_trans(transactions, transactions[n].tx)
        client_id == IF is_dispute(transactions[n]) /\ ori_tx_id # None
                     THEN transactions[ori_tx_id].client
                     ELSE transactions[n].client
        cl_index == position(cls, client_id)
    IN  IF cl_index # None
        THEN [cls EXCEPT ![cl_index] = process_existing(cls[cl_index], transactions, n)]
        ELSE Append(cls, process_new(transactions, n))

\* one iteration of the for loop of process_transactions
process_one(cls, transactions, n) ==
    LET cl_index == position(cls, transactions[n].client)
    IN  IF cl_index # None
        THEN [cls EXCEPT ![cl_index] = process_existing(cls[cl_index], transactions, n)]
        ELSE Append(cls, process_new(transactions, n))

RECURSIVE process_prefix(_, _)
process_prefix(transactions, n) ==
    IF n = 0 THEN <<>>
    ELSE process_one(process_prefix(transactions, n - 1), transactions, n)

\* Client::process_transactions as a function of its argument
process_transactions(transactions) == process_prefix(transactions, Len(transactions))

-----------------------------------------------------------------------------
(* The run of main *)

Init ==
    /\ pc = "read"
    /\ input = <<>>
    /\ txs = <<>>
    /\ i = 1
    /\ clients = <<>>
    /\ history = << <<>> >>

\* get_transactions: one record of the CSV reader is parsed and pushed
ReadRecord ==
    /\ pc = "read"
    /\ \E sr \in CsvRows :
         /\ InBounds(Append(input, new_from_csv(sr)))
         /\ input' = Append(input, new_from_csv(sr))
    /\ UNCHANGED <<pc, txs, i, clients, history>>

\* get_transactions: the reader is exhausted, the vector is sorted and returned
SortTransactions ==
    /\ pc = "read"
    /\ txs' = sort_by_key(input)
    /\ pc' = "replay"
    /\ UNCHANGED <<input, i, clients, history>>

\* process_transactions: one iteration of the for loop
ProcessTransaction ==
    /\ pc = "replay"
    /\ i <= Len(txs)
    /\ clients' = process_one(clients, txs, i)
    /\ history' = Append(history, process_one(clients, txs, i))
    /\ i' = i + 1
    /\ UNCHANGED <<pc, input, txs>>

\* process_transactions: the loop is over, clients is returned
ReturnClients ==
    /\ pc = "replay"
    /\ i > Len(txs)
    /\ pc' = "done"
    /\ UNCHANGED <<input, txs, i, clients, history>>

Next ==
    \/ ReadRecord
    \/ SortTransactions
    \/ ProcessTransaction
    \/ ReturnClients

Spec == Init /\ [][Next]_vars

TypeOK ==
    /\ pc \in {"read", "replay", "done"}
    /\ i \in 1..(Len(txs) + 1)
    /\ Len(history) = i
    /\ history[i] = clients

-----------------------------------------------------------------------------
(* Vocabulary of the properties *)

\* the iterations of the for loop that have run
Processed == 1..(i - 1)

HasAccount(cls, c) == \E k \in 1..Len(cls) : cls[k].client = c

\* the account of client c in cls; the zero account when there is none yet
AccountOf(cls, c) ==
    IF HasAccount(cls, c)
    THEN cls[CHOOSE k \in 1..Len(cls) : cls[k].client = c]
    ELSE [ client |-> c, available |-> 0, held |-> 0, total |-> 0, locked |-> FALSE ]

\* the account of the client of transaction j just before and just after the
\* j-th iteration
AccountBefore(j) == AccountOf(history[j], txs[j].client)
AccountAfter(j) == AccountOf(history[j + 1], txs[j].client)

\* the tx id of transaction j matches some deposit record of the vector
HasDeposit(j) ==
    \E k \in 1..Len(txs) : txs[k].tx_type = "deposit" /\ txs[k].tx = txs[j].tx

\* the amount of the first deposit record whose tx id is that of transaction j
DepositAmount(j) ==
    LET k == CHOOSE m \in 1..Len(txs) :
                /\ txs[m].tx_type = "deposit" /\ txs[m].tx = txs[j].tx
                /\ \A q \in 1..(m - 1) :
                      ~(txs[q].tx_type = "deposit" /\ txs[q].tx = txs[j].tx)
    IN  txs[k].amount

DisputeFamily == {"dispute", "resolve", "chargeback"}

-----------------------------------------------------------------------------
(* C1 *)

\* C1: once an account is locked, every later transaction of any kind
\* addressed to its client leaves available, held, total and locked unchanged.
C1_LockedAccountIsFrozen ==
    \A j \in Processed :
        (HasAccount(history[j], txs[j].client) /\ AccountBefore(j).locked)
            => AccountAfter(j) = AccountBefore(j)

\* a deposit of a positive amount was processed against a locked account
C1_Witness ==
    \E j \in Processed :
        /\ HasAccount(history[j], txs[j].client)
        /\ AccountBefore(j).locked
        /\ txs[j].tx_type = "deposit"
        /\ txs[j].amount > 0

-----------------------------------------------------------------------------
(* C2 *)

\* C2: in every reachable state every account has total = available + held,
\* whatever the kinds of the transactions processed so far.
C2_TotalIsAvailablePlusHeld ==
    \A k \in 1..Len(clients) :
        clients[k].total = clients[k].available + clients[k].held

\* an account with non-zero held and available after an unrecognised kind and
\* a rejected withdrawal were processed
C2_Witness ==
    /\ \E k \in 1..Len(clients) :
          clients[k].held # 0 /\ clients[k].available # 0
    /\ \E j \in Processed : txs[j].tx_type = "transfer"
    /\ \E j \in Processed :
          /\ txs[j].tx_type = "withdrawal"
          /\ AccountAfter(j) = AccountBefore(j)
          /\ txs[j].amount > 0

-----------------------------------------------------------------------------
(* C3 *)

\* C3 (as claimed): a Dispute, Resolve or Chargeback whose tx id matches no
\* deposit record leaves the balances and the lock of its account as they were
\* (as a zero, unlocked account when the client had none).
C3_UnmatchedReferenceIsNoOp ==
    \A j \in Processed :
        (txs[j].tx_type \in DisputeFamily /\ ~HasDeposit(j))
            => AccountAfter(j) = AccountBefore(j)

-----------------------------------------------------------------------------
(* C4 *)

\* C4: a Withdrawal on an unlocked account decreases available (and total) by
\* the amount exactly when available - amount > 0, and otherwise leaves the
\* account unchanged.
C4_WithdrawalIffStrictlyPositive ==
    \A j \in Processed :
        (txs[j].tx_type = "withdrawal" /\ ~AccountBefore(j).locked)
            => LET b == AccountBefore(j)
                   a == AccountAfter(j)
                   amount == txs[j].amount
               IN  IF b.available - amount > 0
                   THEN a = [b EXCEPT !.available = b.available - amount,
                                      !.total = b.total - amount]
                   ELSE a = b

\* one withdrawal was applied, one that would leave exactly 0 was rejected,
\* and one on a fresh zero-balance account was rejected
C4_Witness ==
    /\ \E j \in Processed :
          /\ txs[j].tx_type = "withdrawal" /\ txs[j].amount > 0
          /\ AccountAfter(j).available = AccountBefore(j).available - txs[j].amount
    /\ \E j \in Processed :
          /\ txs[j].tx_type = "withdrawal" /\ txs[j].amount > 0
          /\ ~AccountBefore(j).locked
          /\ AccountBefore(j).available = txs[j].amount
          /\ AccountAfter(j) = AccountBefore(j)

-----------------------------------------------------------------------------
(* C5 *)

\* the rearrangements of the indices of a sequence of length n
IndexPermutations(n) ==
    { p \in [1..n -> 1..n] : \A a, b \in 1..n : a # b => p[a] # p[b] }

Permuted(s, p) == [k \in 1..Len(s) |-> s[p[k]]]

\* p keeps the records of s that share a tx id in their relative order
KeepsOrderWithinTxId(s, p) ==
    \A a, b \in 1..Len(s) :
        (a < b /\ s[p[a]].tx = s[p[b]].tx) => p[a] < p[b]

AccountSet(cls) == { cls[k] : k \in 1..Len(cls) }

\* C5 (as claimed): every rearrangement of the input file, sorted by tx id and
\* replayed, ends with the same account for every client.
C5_AnyOrderSameAccounts ==
    pc = "done" =>
        \A p \in IndexPermutations(Len(input)) :
            AccountSet(process_transactions(sort_by_key(Permuted(input, p))))
                = AccountSet(clients)

\* C5 (amended): every rearrangement of the input file that keeps the records
\* sharing a tx id in their relative order, sorted by tx id and replayed, ends
\* with the same accounts.
C5_SameOrderWithinTxIdSameAccounts ==
    pc = "done" =>
        \A p \in IndexPermutations(Len(input)) :
            KeepsOrderWithinTxId(input, p) =>
                process_transactions(sort_by_key(Permuted(input, p))) = clients

\* a finished run whose input file has a rearrangement, other than itself,
\* that keeps the order within each tx id, and whose replay in file order
\* would have ended differently
C5_Witness ==
    /\ pc = "done"
    /\ \E p \in IndexPermutations(Len(input)) :
          /\ KeepsOrderWithinTxId(input, p)
          /\ Permuted(input, p) # input
          /\ process_transactions(Permuted(input, p)) # clients
    /\ \E k \in 1..Len(clients) : clients[k].available # 0

-----------------------------------------------------------------------------
(* C6 *)

\* iterations j and j + 1 have run, and are a transaction of kind first and one
\* of kind second for the same client and the same tx id, which matches a deposit
Pair(j, first, second) ==
    /\ j \in Processed /\ (j + 1) \in Processed
    /\ txs[j].tx_type = first /\ txs[j + 1].tx_type = second
    /\ txs[j].client = txs[j + 1].client
    /\ txs[j].tx = txs[j + 1].tx
    /\ HasDeposit(j)

\* C6 (as claimed): on an unlocked account in any state, a Dispute followed by
\* the Resolve of the same deposit gives the disputed amount back to available,
\* takes it off held, and leaves total as it was before the Dispute.
C6_DisputeResolveRestores ==
    \A j \in Processed :
        ( /\ Pair(j, "dispute", "resolve")
          /\ HasAccount(history[j], txs[j].client)
          /\ ~AccountBefore(j).locked )
            => LET b == AccountBefore(j)
                   d == AccountAfter(j)
                   r == AccountAfter(j + 1)
                   amount == DepositAmount(j)
               IN  /\ r.available = d.available + amount
                   /\ r.held = d.held - amount
                   /\ r.total = b.total

\* C6 (amended): the same, for an unlocked account that holds nothing
\* (held = 0) when the Dispute arrives.
C6_DisputeResolveRestoresWhenNothingHeld ==
    \A j \in Processed :
        ( /\ Pair(j, "dispute", "resolve")
          /\ HasAccount(history[j], txs[j].client)
          /\ ~AccountBefore(j).locked
          /\ AccountBefore(j).held = 0 )
            => LET b == AccountBefore(j)
                   d == AccountAfter(j)
                   r == AccountAfter(j + 1)
                   amount == DepositAmount(j)
               IN  /\ r.available = d.available + amount
                   /\ r.held = d.held - amount
                   /\ r.total = b.total

\* a deposit of a positive amount was disputed and then resolved on an unlocked
\* account that held nothing
C6_Witness ==
    \E j \in Processed :
        /\ Pair(j, "dispute", "resolve")
        /\ HasAccount(history[j], txs[j].client)
        /\ ~AccountBefore(j).locked
        /\ AccountBefore(j).held = 0
        /\ DepositAmount(j) > 0
        /\ AccountBefore(j).available > 0

-----------------------------------------------------------------------------
(* C7 *)

\* C7: a Dispute followed immediately by the Chargeback of the same deposit
\* locks the account, takes the deposit's amount off held and leaves available
\* as the Dispute left it; every later transaction of that client leaves the
\* account unchanged.
C7_DisputeChargebackLocks ==
    \A j \in Processed :
        ( /\ Pair(j, "dispute", "chargeback")
          /\ ~AccountBefore(j).locked )
            => LET d == AccountAfter(j)
                   r == AccountAfter(j + 1)
                   amount == DepositAmount(j)
               IN  /\ r.locked
                   /\ r.held = d.held - amount
                   /\ r.available = d.available
                   /\ \A k \in Processed :
                         (k > j + 1 /\ txs[k].client = txs[j].client)
                             => AccountAfter(k) = r

\* a deposit of a positive amount was disputed and charged back, and a deposit
\* of a positive amount to the same client was processed afterwards
C7_Witness ==
    \E j \in Processed :
        /\ Pair(j, "dispute", "chargeback")
        /\ HasAccount(history[j], txs[j].client)
        /\ ~AccountBefore(j).locked
        /\ DepositAmount(j) > 0
        /\ \E k \in Processed :
              /\ k > j + 1
              /\ txs[k].client = txs[j].client
              /\ txs[k].tx_type = "deposit"
              /\ txs[k].amount > 0

-----------------------------------------------------------------------------
(* C8 *)

RECURSIVE SumOfAmounts(_, _)
SumOfAmounts(s, n) ==
    IF n = 0 THEN 0 ELSE SumOfAmounts(s, n - 1) + s[n].amount

OnlyDepositsOfOneClient(s) ==
    /\ s # <<>>
    /\ \A k \in 1..Len(s) : s[k].tx_type = "deposit" /\ s[k].client = s[1].client

\* C8: when the input holds only deposits to a single client, the replay ends
\* with one account: available = total = the sum of the deposited amounts,
\* held = 0, locked = false.
C8_DepositsAddUp ==
    (pc = "done" /\ OnlyDepositsOfOneClient(input))
        => clients = << [ client    |-> input[1].client,
                          available |-> SumOfAmounts(input, Len(input)),
                          held      |-> 0,
                          total     |-> SumOfAmounts(input, Len(input)),
                          locked    |-> FALSE ] >>

\* a finished replay of at least three deposits to one client, the first and
\* the last of a positive amount, under two tx ids
C8_Witness ==
    /\ pc = "done"
    /\ OnlyDepositsOfOneClient(input)
    /\ Len(input) >= 3
    /\ input[1].amount > 0 /\ input[Len(input)].amount > 0
    /\ \E k \in 1..Len(input) : input[k].tx # input[1].tx

-----------------------------------------------------------------------------
(* C9 *)

\* C9 (as claimed): the first transaction of a client is handled as the same
\* transaction on an already existing zero account: the account pushed is what
\* the Some arm makes of Client::new(client_id).
C9_FirstTransactionAsOnExistingAccount ==
    \A j \in Processed :
        ~HasAccount(history[j], txs[j].client)
            => history[j + 1]
                 = Append(history[j],
                          process_existing(Client_new(txs[j].client), txs, j))

-----------------------------------------------------------------------------
(* C10 *)

\* C10: a Dispute, Resolve or Chargeback on an existing unlocked account whose
\* tx id matches a deposit is applied with the amount of that deposit (the
\* first one with that tx id), whatever its own amount field holds.
C10_DisputeFamilyUsesDepositAmount ==
    \A j \in Processed :
        ( /\ txs[j].tx_type \in DisputeFamily
          /\ HasAccount(history[j], txs[j].client)
          /\ ~AccountBefore(j).locked
          /\ HasDeposit(j) )
            => LET b == AccountBefore(j)
                   a == AccountAfter(j)
                   amount == DepositAmount(j)
               IN  CASE txs[j].tx_type = "dispute" ->
                          a = [b EXCEPT !.available = b.available - amount,
                                        !.held = b.held + amount]
                     [] txs[j].tx_type = "resolve" ->
                          a = [b EXCEPT !.available = b.available + b.held,
                                        !.held = b.held - amount,
                                        !.total = b.total + b.held - amount]
                     [] txs[j].tx_type = "chargeback" ->
                          a = [b EXCEPT !.held = b.held - amount,
                                        !.total = b.total - amount,
                                        !.locked = TRUE]

\* on an existing unlocked account, a dispute whose own amount field is
\* written, and differs from the amount of the deposit it matches, was processed
C10_Witness ==
    \E j \in Processed :
        /\ txs[j].tx_type = "dispute"
        /\ HasAccount(history[j], txs[j].client)
        /\ ~AccountBefore(j).locked
        /\ HasDeposit(j)
        /\ txs[j].amount > 0
        /\ txs[j].amount # DepositAmount(j)

-----------------------------------------------------------------------------
(* C11 *)

\* a deposit record with the tx id of transaction j stands before it in the
\* processing order
HasEarlierDeposit(j) ==
    \E k \in 1..(j - 1) : txs[k].tx_type = "deposit" /\ txs[k].tx = txs[j].tx

\* C11 (as claimed): a Dispute, Resolve or Chargeback on an existing unlocked
\* account whose only matching deposit records come later in the processing
\* order is a no-op.
C11_LaterDepositIsNoOp ==
    \A j \in Processed :
        ( /\ txs[j].tx_type \in DisputeFamily
          /\ HasDeposit(j)
          /\ ~HasEarlierDeposit(j)
          /\ HasAccount(history[j], txs[j].client)
          /\ ~AccountBefore(j).locked )
            => AccountAfter(j) = AccountBefore(j)

-----------------------------------------------------------------------------
(* C12 *)

RECURSIVE FirstAppearances(_, _)
\* the client ids of the first n records of s, each once, in the order in
\* which they first occur
FirstAppearances(s, n) ==
    IF n = 0 THEN <<>>
    ELSE LET before == FirstAppearances(s, n - 1)
         IN  IF \E k \in 1..Len(before) : before[k] = s[n].client
             THEN before
             ELSE Append(before, s[n].client)

ClientIdsOf(cls) == [k \in 1..Len(cls) |-> cls[k].client]

\* C12: the accounts are one per client id of the transactions replayed so
\* far, in the order in which the client ids first appear in the sorted
\* stream, and an account never changes its position.
C12_OneAccountPerClientInFirstAppearanceOrder ==
    /\ ClientIdsOf(clients) = FirstAppearances(txs, i - 1)
    /\ \A j \in Processed :
         \A k \in 1..Len(history[j]) :
             /\ k <= Len(history[j + 1])
             /\ history[j + 1][k].client = history[j][k].client

\* a finished replay with two accounts, of a file whose first record is not
\* of the first account's client, and in which a client occurs twice
C12_Witness ==
    /\ pc = "done"
    /\ Len(clients) = 2
    /\ input[1].client # clients[1].client
    /\ \E a, b \in 1..Len(txs) : a < b /\ txs[a].client = txs[b].client

-----------------------------------------------------------------------------
(* C13 *)

\* the replay has returned
Done == pc = "done"

\* iteration j met one of the conditions the replay is to absorb
OverWithdrawal(j) ==
    txs[j].tx_type = "withdrawal" /\ AccountBefore(j).available - txs[j].amount <= 0
UnresolvedReference(j) ==
    txs[j].tx_type \in DisputeFamily /\ ~HasDeposit(j)
LockedAccountWrite(j) ==
    HasAccount(history[j], txs[j].client) /\ AccountBefore(j).locked
UnrecognisedKind(j) ==
    txs[j].tx_type \notin {"deposit", "withdrawal", "dispute", "resolve", "chargeback"}

\* the run never stops before the replay has returned, the replay returns
\* after one iteration per transaction, and an empty sequence gives no account
C13_RunsToTheEnd ==
    /\ Done \/ ENABLED Next
    /\ pc # "read" => Len(txs) = Len(input)
    /\ Len(history) = i
    /\ Done => i = Len(txs) + 1
    /\ (Done /\ txs = <<>>) => clients = <<>>

\* C13 (as claimed): the replay of any finite sequence runs to its end, one
\* iteration per transaction, with no error; over-withdrawals, unresolved
\* references, writes to locked accounts and unrecognised kinds leave the
\* account as it was; an empty sequence gives an empty account sequence.
C13_TerminatesAbsorbingAsNoOps ==
    /\ C13_RunsToTheEnd
    /\ \A j \in Processed :
         ( \/ OverWithdrawal(j)
           \/ UnresolvedReference(j)
           \/ LockedAccountWrite(j)
           \/ UnrecognisedKind(j) )
             => AccountAfter(j) = AccountBefore(j)

\* the part of C13 that does not rest on unresolved references
C13_TerminatesAbsorbingTheOthers ==
    /\ C13_RunsToTheEnd
    /\ \A j \in Processed :
         ( \/ OverWithdrawal(j)
           \/ LockedAccountWrite(j)
           \/ UnrecognisedKind(j) )
             => AccountAfter(j) = AccountBefore(j)

-----------------------------------------------------------------------------
(* C14 *)

\* the records of s whose tx id is t, in their order in s
WithTxId(s, t) == SelectSeq(s, LAMBDA r : r.tx = t)

\* C14: the vector that is replayed holds the records of the input in
\* non-decreasing tx id order, and the records sharing a tx id in their input
\* order (so it is the stable sort of the input by tx id).
C14_SortedByTxIdStable ==
    pc # "read" =>
        /\ Len(txs) = Len(input)
        /\ \A a, b \in 1..Len(txs) : a < b => txs[a].tx <= txs[b].tx
        /\ \A t \in TxIds : WithTxId(txs, t) = WithTxId(input, t)

\* a finished replay of an input that was not sorted and holds a deposit
\* followed by the dispute that names it, which stayed in that order
C14_Witness ==
    /\ pc = "done"
    /\ input # txs
    /\ \E a, b \in 1..Len(input) :
          /\ a < b
          /\ input[a].tx = input[b].tx /\ input[a].client = input[b].client
          /\ input[a].tx_type = "deposit" /\ input[b].tx_type = "dispute"
    /\ \E k \in 1..(Len(txs) - 1) :
          /\ txs[k].tx = txs[k + 1].tx
          /\ txs[k].tx_type = "deposit" /\ txs[k + 1].tx_type = "dispute"

-----------------------------------------------------------------------------
(* C15 *)

\* iteration j applied a transaction of this kind, whose tx id matches a
\* deposit, to an existing unlocked account
AppliedWithDeposit(j, kind) ==
    /\ txs[j].tx_type = kind
    /\ HasDeposit(j)
    /\ HasAccount(history[j], txs[j].client)
    /\ ~AccountBefore(j).locked

\* C15: a Resolve with deposit amount a on balances (available, held) gives
\* available + held and held - a, with locked unchanged; so total changes by
\* held - a, which is not 0 when more than that deposit is held.
C15_ResolveAddsAllHeld ==
    \A j \in Processed :
        AppliedWithDeposit(j, "resolve")
            => LET b == AccountBefore(j)
                   a == AccountAfter(j)
               IN  /\ a.available = b.available + b.held
                   /\ a.held = b.held - DepositAmount(j)
                   /\ a.locked = b.locked
                   /\ a.total - b.total = b.held - DepositAmount(j)
                   /\ (b.held # DepositAmount(j)) => a.total # b.total

\* a Resolve of a deposit of a positive amount changed total on an account
\* that held twice that amount, after two Disputes
C15_Witness ==
    \E j \in Processed :
        /\ AppliedWithDeposit(j, "resolve")
        /\ DepositAmount(j) > 0
        /\ AccountBefore(j).held = 2 * DepositAmount(j)
        /\ AccountAfter(j).total # AccountBefore(j).total
        /\ \E k, m \in 1..(j - 1) :
              k # m /\ txs[k].tx_type = "dispute" /\ txs[m].tx_type = "dispute"

-----------------------------------------------------------------------------
(* C16 *)

\* C16: a Dispute with deposit amount a gives available - a and held + a
\* whatever available is and whether or not the deposit is already under
\* dispute; total and locked are unchanged.
C16_DisputeMovesAmountUnconditionally ==
    \A j \in Processed :
        AppliedWithDeposit(j, "dispute")
            => LET b == AccountBefore(j)
                   a == AccountAfter(j)
               IN  /\ a.available = b.available - DepositAmount(j)
                   /\ a.held = b.held + DepositAmount(j)
                   /\ a.total = b.total
                   /\ a.locked = b.locked

\* a deposit of a positive amount was disputed twice in a row, the second
\* time with less available than the amount
C16_Witness ==
    \E j \in Processed :
        /\ Pair(j, "dispute", "dispute")
        /\ AppliedWithDeposit(j, "dispute")
        /\ DepositAmount(j) > 0
        /\ AccountAfter(j).available < DepositAmount(j)
        /\ AccountAfter(j + 1).available < 0
        /\ AccountAfter(j + 1).held = 2 * DepositAmount(j)

-----------------------------------------------------------------------------
(* C17 *)

\* C17: an iteration changes at most the account of its transaction's client:
\* every other account keeps its place and its values, and at most one account
\* (that client's) is added.
C17_OnlyTheClientsAccountChanges ==
    \A j \in Processed :
        /\ \A k \in 1..Len(history[j]) :
             history[j][k].client # txs[j].client
                 => history[j + 1][k] = history[j][k]
        /\ Len(history[j + 1]) <= Len(history[j]) + 1
        /\ \A k \in (Len(history[j]) + 1)..Len(history[j + 1]) :
             history[j + 1][k].client = txs[j].client

\* a dispute by one client of a deposit of a positive amount made by another
\* client, both with accounts, changed the disputing client's account
C17_Witness ==
    \E j \in Processed :
        /\ AppliedWithDeposit(j, "dispute")
        /\ DepositAmount(j) > 0
        /\ AccountAfter(j) # AccountBefore(j)
        /\ \E k \in 1..(j - 1) :
              /\ txs[k].tx_type = "deposit" /\ txs[k].tx = txs[j].tx
              /\ txs[k].client # txs[j].client
        /\ \A k \in 1..Len(txs) :
              (txs[k].tx_type = "deposit" /\ txs[k].tx = txs[j].tx)
                  => txs[k].client # txs[j].client

-----------------------------------------------------------------------------
(* C18 *)

\* C18: no account goes from locked to unlocked, and an account becomes
\* locked (or is created locked) only in an iteration that processes a
\* Chargeback of its client.
C18_LockedMonotoneOnlyByChargeback ==
    \A j \in Processed :
        /\ \A k \in 1..Len(history[j]) :
             history[j][k].locked => history[j + 1][k].locked
        /\ \A k \in 1..Len(history[j + 1]) :
             ( /\ history[j + 1][k].locked
               /\ ~AccountOf(history[j], history[j + 1][k].client).locked )
                 => /\ txs[j].tx_type = "chargeback"
                    /\ txs[j].client = history[j + 1][k].client

\* an account was locked by a Chargeback and stayed locked through a later
\* Resolve and a later Deposit of its client
C18_Witness ==
    \E j \in Processed :
        /\ txs[j].tx_type = "chargeback"
        /\ HasAccount(history[j], txs[j].client)
        /\ ~AccountBefore(j).locked
        /\ AccountAfter(j).locked
        /\ \E k, m \in Processed :
              /\ k > j /\ m > j
              /\ txs[k].client = txs[j].client /\ txs[m].client = txs[j].client
              /\ txs[k].tx_type = "resolve" /\ txs[m].tx_type = "deposit"
              /\ txs[m].amount > 0
        /\ AccountOf(clients, txs[j].client).locked

-----------------------------------------------------------------------------
(* C19 *)

\* C19 (as claimed): with no negative amount in the input, no account ever has
\* a negative held balance.
C19_HeldNeverNegative ==
    (\A k \in 1..Len(input) : input[k].amount >= 0)
        => \A k \in 1..Len(clients) : clients[k].held >= 0

====
